---- MODULE Spec2Model ----
(***************************************************************************)
(* Model of bot.py: the oj helpers (run_oj, oj_login, oj_submit,           *)
(* oj_get_result), the two persistence engines behind db_pool, and the     *)
(* slash commands vjudge_link, submit and leaderboard, each split at the   *)
(* points where the coroutine really suspends.                             *)
(*                                                                         *)
(* Text is a sequence of one-character strings, so that splitlines(),      *)
(* split(), lower() and the substring test are computed, not assumed.      *)
(*                                                                         *)
(* Specifications: Spec (the process from module load on, one submit       *)
(* request), SpecConc (requests in flight together), SpecParse             *)
(* (oj_get_result on its own) and SpecDb (the statements of the handlers   *)
(* on both engines).                                                       *)
(***************************************************************************)
EXTENDS Integers, Sequences, FiniteSets, TLC

\* ------------------------------------------------------------------ text

NL == "\n"

SP == " "

\* str.split() with no argument splits on runs of whitespace
Whitespace == {SP, NL}

None == "None"

\* None where a row, a dict or a text is expected
Nil == <<>>

RECURSIVE SplitLinesFrom(_, _, _)
SplitLinesFrom(s, i, cur) ==
  IF i > Len(s) THEN (IF cur = <<>> THEN <<>> ELSE <<cur>>)
  ELSE IF s[i] = NL THEN <<cur>> \o SplitLinesFrom(s, i + 1, <<>>)
  ELSE SplitLinesFrom(s, i + 1, Append(cur, s[i]))

\* str.splitlines(): no empty last line after a trailing newline
splitlines(s) == SplitLinesFrom(s, 1, <<>>)

RECURSIVE SplitFrom(_, _, _)
SplitFrom(s, i, cur) ==
  IF i > Len(s) THEN (IF cur = <<>> THEN <<>> ELSE <<cur>>)
  ELSE IF s[i] \in Whitespace
       THEN (IF cur = <<>> THEN <<>> ELSE <<cur>>) \o SplitFrom(s, i + 1, <<>>)
       ELSE SplitFrom(s, i + 1, Append(cur, s[i]))

\* str.split(): the whitespace-separated tokens, none of them empty
split(s) == SplitFrom(s, 1, <<>>)

\* `sub in s` on strings
Contains(sub, s) ==
  \E i \in 0..(Len(s) - Len(sub)) : SubSeq(s, i + 1, i + Len(sub)) = sub

LowerChar(c) ==
  CASE c = "A" -> "a" [] c = "C" -> "c" [] c = "D" -> "d" [] c = "E" -> "e"
    [] c = "G" -> "g" [] c = "I" -> "i" [] c = "J" -> "j" [] c = "N" -> "n"
    [] c = "P" -> "p" [] c = "R" -> "r" [] c = "T" -> "t" [] c = "U" -> "u"
    [] c = "W" -> "w" [] OTHER -> c

\* str.lower()
lower(s) == [i \in 1..Len(s) |-> LowerChar(s[i])]

RECURSIVE Join(_, _)
Join(parts, sep) ==
  IF parts = <<>> THEN <<>>
  ELSE IF Len(parts) = 1 THEN parts[1]
  ELSE parts[1] \o sep \o Join(Tail(parts), sep)

\* ------------------------------------------------------- oj_get_result

Unknown == [verdict |-> <<"U", "n", "k", "n", "o", "w", "n">>,
            time |-> <<"N", "/", "A">>, memory |-> <<"N", "/", "A">>]

Timeout == [verdict |-> <<"T", "i", "m", "e", "o", "u", "t">>,
            time |-> <<"N", "/", "A">>, memory |-> <<"N", "/", "A">>]

Returned(v) == [kind |-> "return", value |-> v]

Raised(e) == [kind |-> "raise", exc |-> e]

\* parts[3], parts[4], parts[5] of the line (0-based in the source);
\* indexing past the end of the list raises IndexError
PartsToVerdict(parts) ==
  IF Len(parts) < 6 THEN Raised("IndexError")
  ELSE Returned([verdict |-> parts[4], time |-> parts[5], memory |-> parts[6]])

MatchingLines(lines, submission_id) ==
  {i \in 1..Len(lines) : Contains(submission_id, lines[i])}

LastOf(S) == CHOOSE i \in S : \A j \in S : i >= j

FirstOf(S) == CHOOSE i \in S : \A j \in S : i <= j

\* the part of oj_get_result after the exit-code test: scan the table
parse(stdout, submission_id) ==
  LET lines == splitlines(stdout)
      hits  == MatchingLines(lines, submission_id)
  IN  IF hits = {} THEN Returned(Unknown)
      ELSE PartsToVerdict(split(lines[FirstOf(hits)]))

\* cp is the CompletedProcess of `oj get <submission_id>`
oj_get_result(cp, submission_id) ==
  IF cp.returncode # 0 THEN Raised("RuntimeError")
  ELSE parse(cp.stdout, submission_id)

\* ------------------------------------------------- external tool (oj)

\* the submission id that `oj submit` prints last
RunId == <<"4", "2">>

W_judging == <<"j", "u", "d", "g", "i", "n", "g">>

W_running == <<"r", "u", "n", "n", "i", "n", "g">>

W_accepted == <<"a", "c", "c", "e", "p", "t", "e", "d">>

\* a row of the status table: ID, date, problem, verdict, time, memory
StatusRow(id, verdict) ==
  Join(<<id, <<"d">>, <<"p">>, verdict, <<"1", "s">>, <<"2", "K">>>>, <<SP>>) \o <<NL>>

StatusHeader == <<"I", "D", SP, "V", NL>>

\* verdict columns the judge may show
Verdicts == { <<"J", "u", "d", "g", "i", "n", "g">>,
              <<"R", "U", "N", "N", "I", "N", "G">>,
              <<"A", "c", "c", "e", "p", "t", "e", "d">> }

\* what `oj get <id>` may print on exit code 0: the table with the row, a
\* table without it, or a truncated row
StatusOutputs(id) ==
  { StatusHeader \o StatusRow(id, v) : v \in Verdicts }
    \cup { StatusHeader, id \o <<SP>> \o <<"W", "A">> \o <<NL>> }

\* CompletedProcess values of run_oj(["get", id])
GetProcesses(id) ==
  { [returncode |-> 1, stdout |-> <<>>] }
    \cup { [returncode |-> 0, stdout |-> s] : s \in StatusOutputs(id) }

\* oj_get_result on each of these, worked out once
PollResults ==
  [id \in {RunId} |-> [cp \in GetProcesses(id) |-> oj_get_result(cp, id)]]

\* CompletedProcess values of run_oj(["submit", ...]): failure, empty
\* output, or a message ending in the submission id
SubmitProcesses ==
  { [returncode |-> 1, stdout |-> <<>>],
    [returncode |-> 0, stdout |-> <<NL>>],
    [returncode |-> 0, stdout |-> <<"o", "k", SP>> \o RunId \o <<NL>>] }

\* CompletedProcess values of run_oj(["login", ...])
LoginProcesses == { [returncode |-> 0], [returncode |-> 1] }

oj_login_unchecked(cp) == Returned(None)

\* raises unless the login process exited with 0
oj_login(cp) ==
  IF cp.returncode # 0 THEN Raised("RuntimeError") ELSE Returned(None)

\* cp.stdout.strip().split()[-1]: the last token, IndexError when none
oj_submit(cp) ==
  IF cp.returncode # 0 THEN Raised("RuntimeError")
  ELSE LET toks == split(cp.stdout)
       IN  IF toks = <<>> THEN Raised("IndexError")
           ELSE Returned(toks[Len(toks)])

\* ---------------------------------------------------------------- state

\* submit requests the model follows, each a task of its own
MaxReqs == 2

Reqs == 1..MaxReqs

MaxAttemptsOneMore == 30 + 1

\* range(30) of the poll loop
MaxAttempts == 30

Users == {"u1", "u2"}

\* (username, password) pairs a user may link
Creds == { <<"alice", "pw1">>, <<"alice", "pw2">> }

Judges == {"CF"}

Problems == {"1A"}

Engines == {"sqlite", "pg"}

VARIABLES
  DATABASE_URL,   \* TRUE when the connection string is configured
  db_pool,        \* None, or the asyncpg pool
  db,             \* the two stores: DB_FILE and the Postgres database
  running,        \* the task that holds the event loop thread: {} or {r}
  req,            \* the submit tasks: position, locals, and what they did
  last_link,      \* per user, the credentials of the last completed link
  p_in,           \* input of the parser under test
  p_out,          \* its result
  out,            \* the last persistence operation and what it returned
  session         \* the user of the last oj login that exited with 0

vars == <<DATABASE_URL, db_pool, db, running, req, last_link, p_in, p_out, out, session>>

EmptyStore(hasSchema) == [schema |-> hasSchema, users |-> {}, solves |-> <<>>]

IdleReq == [pc |-> "idle", user |-> None, judge |-> None, problem_id |-> None,
            row |-> Nil, tmp_path |-> None, run_id |-> Nil, i |-> 0,
            verdict_data |-> Nil, e |-> None,
            logins |-> 0, submits |-> 0, gets |-> 0, in_progress |-> 0,
            login_rcs |-> <<>>, submit_cps |-> <<>>, asked |-> Nil,
            stored |-> FALSE, all_in_progress |-> FALSE, raised |-> None,
            looked |-> None, wrote |-> None, replies |-> <<>>]

\* module load: db_pool = None; DB_FILE may be left by an earlier run
\* (schema present) or not exist yet. The tables start without rows: the
\* model follows the rows of one process lifetime.
Init ==
  /\ DATABASE_URL \in BOOLEAN
  /\ db_pool = None
  /\ \E left \in BOOLEAN :
       db = [e \in Engines |-> EmptyStore(e = "sqlite" /\ left)]
  /\ running = {}
  /\ req = [r \in Reqs |-> IdleReq]
  /\ last_link = [u \in Users |-> Nil]
  /\ p_in = Nil
  /\ p_out = Nil
  /\ out = Nil
  /\ session = None

\* ------------------------------------------------------------ database

\* `if db_pool:` ... `else:` at every call site
Backend == IF db_pool # None THEN "pg" ELSE "sqlite"

\* CREATE TABLE IF NOT EXISTS users / solves
CreateTables(store) == [store EXCEPT !.schema = TRUE]

\* INSERT INTO users ... ON CONFLICT(user_id) DO UPDATE SET ...
Upsert(users, user_id, username, password) ==
  {x \in users : x.user_id # user_id}
    \cup {[user_id |-> user_id, username |-> username, password |-> password]}

\* SELECT username, password FROM users WHERE user_id = ?  (one row or None)
FetchRow(users, user_id) ==
  LET hit == {x \in users : x.user_id = user_id}
  IN  IF hit = {} THEN Nil
      ELSE LET x == CHOOSE y \in hit : TRUE IN <<x.username, x.password>>

SolveRow(user_id, judge, problem_id) ==
  [user_id |-> user_id, judge |-> judge, problem_id |-> problem_id]

InsertOrIgnoreByProblem(solves, row) ==
  IF \E k \in 1..Len(solves) :
       solves[k].judge = row.judge /\ solves[k].problem_id = row.problem_id
  THEN solves
  ELSE Append(solves, row)

InsertOrReplace(solves, row) ==
  Append(SelectSeq(solves, LAMBDA x : x # row), row)

InsertAlways(solves, row) == Append(solves, row)

\* INSERT OR IGNORE / ON CONFLICT DO NOTHING under UNIQUE(user_id, judge,
\* problem_id); the position in the sequence stands for the surrogate id
InsertOrIgnore(solves, row) ==
  IF \E k \in 1..Len(solves) : solves[k] = row THEN solves
  ELSE Append(solves, row)

\* SELECT user_id, COUNT(*) AS solves FROM solves GROUP BY user_id: one
\* row (user_id, solves) for each user_id of the table
GroupByUser(solves) ==
  { <<u, Cardinality({k \in 1..Len(solves) : solves[k].user_id = u})>> :
      u \in {solves[k].user_id : k \in 1..Len(solves)} }

OrderBySolvesAsc(rows) ==
  \A i, j \in 1..Len(rows) : i < j => rows[i][2] <= rows[j][2]

\* ORDER BY solves DESC: nothing is said about rows of equal solves
OrderBySolvesDesc(rows) ==
  \A i, j \in 1..Len(rows) : i < j => rows[i][2] >= rows[j][2]

\* the sequences that list every element of S once
Orderings(S) ==
  { q \in [1..Cardinality(S) -> S] : \A x \in S : \E i \in DOMAIN q : q[i] = x }

\* the row lists the leaderboard query may return: the engine is free in
\* the order of rows that ORDER BY does not tell apart
LeaderboardRows(solves) ==
  { rows \in Orderings(GroupByUser(solves)) : OrderBySolvesDesc(rows) }

\* init_db: creates the tables of the configured engine, returns the pool
\* or None
init_db ==
  LET e == IF DATABASE_URL THEN "pg" ELSE "sqlite"
  IN  [store |-> [db EXCEPT ![e] = CreateTables(db[e])],
       pool  |-> IF DATABASE_URL THEN "pool" ELSE None]

\* the ready event; it may be delivered again after a reconnect
on_ready ==
  /\ running = {}
  /\ db' = init_db.store
  /\ db_pool' = init_db.pool
  /\ UNCHANGED <<DATABASE_URL, running, req, last_link, p_in, p_out, out, session>>

\* /vjudge_link: a statement on a store without the tables raises
\* (no such table) and the command ends without a reply
vjudge_link(user_id, username, password) ==
  /\ running = {}
  /\ LET e == Backend
     IN  IF db[e].schema
         THEN /\ db' = [db EXCEPT ![e].users =
                          Upsert(db[e].users, user_id, username, password)]
              /\ last_link' = [last_link EXCEPT ![user_id] = <<username, password>>]
         ELSE UNCHANGED <<db, last_link>>
  /\ UNCHANGED <<DATABASE_URL, db_pool, running, req, p_in, p_out, out, session>>

\* -------------------------------------------------------------- submit

\* verdict_data["verdict"].lower() not in ("running", "judging")
IsTerminal(verdict_data) ==
  lower(verdict_data.verdict) \notin {W_running, W_judging}

IsAcceptedExact(verdict_data) == verdict_data.verdict = W_accepted

IsAcceptedAnyFinal(verdict_data) ==
  lower(verdict_data.verdict) \notin {W_running, W_judging}

\* verdict_data["verdict"].lower() == "accepted"
IsAccepted(verdict_data) == lower(verdict_data.verdict) = W_accepted

\* `if not verdict_data:` after the loop; a dict with keys is truthy
AfterLoop(verdict_data) ==
  IF verdict_data = Nil THEN Timeout ELSE verdict_data

safe_respond_both(replies, kind, text, forbidden) ==
  Append(replies, [kind |-> kind, text |-> text, via |-> "dm",
                   forbidden |-> forbidden,
                   calls |-> << [to |-> "respond", text |-> text],
                                [to |-> "dm", text |-> text] >>])

\* safe_respond: ctx.respond, or ctx.author.send when it raises Forbidden;
\* the message goes out once, through the one channel or the other. calls
\* lists the sends the call made, in order
safe_respond(replies, kind, text, forbidden) ==
  LET primary  == [to |-> "respond", text |-> text]
      fallback == [to |-> "dm", text |-> text]
  IN  Append(replies, [kind |-> kind, text |-> text,
                       via |-> IF forbidden THEN "dm" ELSE "respond",
                       forbidden |-> forbidden,
                       calls |-> IF forbidden THEN <<primary, fallback>>
                                 ELSE <<primary>>])

ExceptPropagates(r, exc) ==
  [r EXCEPT !.pc = "crashed", !.e = exc, !.verdict_data = Nil,
            !.i = 0, !.gets = 0, !.in_progress = 0, !.asked = Nil]

\* the except clause of submit: remember e, go to the error reply
Except(r, exc) ==
  [r EXCEPT !.pc = "reply_error", !.e = exc, !.verdict_data = Nil,
            !.i = 0, !.gets = 0, !.in_progress = 0, !.asked = Nil]

run_oj_async(r) == {}

\* run_oj is subprocess.run, a blocking call: while the oj process of task r
\* runs, r holds the event loop thread
run_oj(r) == {r}

\* history: some store holds a users row of user_id
HasCredentials(user_id) ==
  \E e \in Engines : \E x \in db[e].users : x.user_id = user_id

\* the command arrives and is deferred (await ctx.defer)
submit_defer(r, user_id, judge, problem_id) ==
  /\ running = {}
  /\ req[r].pc = "idle"
  /\ \A k \in 1..(r - 1) : req[k].pc # "idle"
  /\ req' = [req EXCEPT ![r] = [@ EXCEPT !.pc = "lookup", !.user = user_id,
                                  !.judge = judge, !.problem_id = problem_id]]
  /\ UNCHANGED <<DATABASE_URL, db_pool, db, running, last_link, p_in, p_out, out, session>>

\* 1) fetch credentials; without a row the task goes on to the NotLinked
\* reply, with one it keeps the thread and runs on into oj_login
submit_lookup(r) ==
  /\ running = {}
  /\ req[r].pc = "lookup"
  /\ LET e   == Backend
         row == FetchRow(db[e].users, req[r].user)
         q   == [req[r] EXCEPT !.stored = HasCredentials(req[r].user),
                               !.looked = e]
     IN  IF ~db[e].schema
         THEN /\ req' = [req EXCEPT ![r] = [q EXCEPT !.pc = "crashed"]]
              /\ UNCHANGED running
         ELSE IF row = Nil
         THEN /\ req' = [req EXCEPT ![r] = [q EXCEPT !.pc = "reply_notlinked"]]
              /\ UNCHANGED running
         ELSE /\ req' = [req EXCEPT ![r] = [q EXCEPT !.pc = "login", !.row = row]]
              /\ running' = run_oj(r)
  /\ UNCHANGED <<DATABASE_URL, db_pool, db, last_link, p_in, p_out, out, session>>

\* 2) await oj_login(username, password): subprocess.run, no suspension
submit_login(r, cp) ==
  /\ running = run_oj(r)
  /\ req[r].pc = "login"
  /\ LET res == oj_login(cp)
         q   == [req[r] EXCEPT !.logins = @ + 1,
                               !.login_rcs = Append(@, cp.returncode),
                               !.raised = IF res.kind = "raise" THEN res.exc ELSE @]
     IN  /\ IF res.kind = "raise"
            THEN /\ req' = [req EXCEPT ![r] = Except(q, res.exc)]
                 /\ running' = {}
            ELSE /\ req' = [req EXCEPT ![r] = [q EXCEPT !.pc = "stage"]]
                 /\ running' = {r}
         /\ session' = IF cp.returncode = 0 THEN req[r].user ELSE session
  /\ UNCHANGED <<DATABASE_URL, db_pool, db, last_link, p_in, p_out, out>>

\* the code is written to a NamedTemporaryFile(delete=False), then oj_submit
\* is called
submit_stage(r) ==
  /\ running = {r}
  /\ req[r].pc = "stage"
  /\ req' = [req EXCEPT ![r] = [@ EXCEPT !.pc = "submit", !.tmp_path = "tmp"]]
  /\ running' = run_oj(r)
  /\ UNCHANGED <<DATABASE_URL, db_pool, db, last_link, p_in, p_out, out, session>>

\* run_id = await oj_submit(problem_url, tmp_path, language)
submit_oj_submit(r, cp) ==
  /\ running = run_oj(r)
  /\ req[r].pc = "submit"
  /\ LET res == oj_submit(cp)
         q   == [req[r] EXCEPT !.submits = @ + 1,
                               !.submit_cps = Append(@, cp),
                               !.raised = IF res.kind = "raise" THEN res.exc ELSE @]
     IN  IF res.kind = "raise"
         THEN /\ req' = [req EXCEPT ![r] = Except(q, res.exc)]
              /\ running' = {}
         ELSE /\ req' = [req EXCEPT ![r] =
                           [q EXCEPT !.pc = "poll", !.run_id = res.value, !.i = 0]]
              /\ running' = run_oj(r)
  /\ UNCHANGED <<DATABASE_URL, db_pool, db, last_link, p_in, p_out, out, session>>

\* 3) one pass of the loop body, up to `break` or `await asyncio.sleep(2)`:
\* the first pass runs on from oj_submit, a later one when the sleep is over
submit_poll(r, cp) ==
  /\ \/ running = run_oj(r) /\ req[r].pc = "poll"
     \/ running = {} /\ req[r].pc = "sleep" /\ req[r].i + 1 < MaxAttempts
  /\ LET res == PollResults[req[r].run_id][cp]
         q   == [req[r] EXCEPT !.gets = @ + 1,
                               !.asked = req[r].run_id,
                               !.i = IF req[r].pc = "sleep" THEN @ + 1 ELSE @,
                               !.raised = IF res.kind = "raise" THEN res.exc ELSE @]
     IN  IF res.kind = "raise"
         THEN /\ req' = [req EXCEPT ![r] = Except(q, res.exc)]
              /\ running' = {}
         ELSE IF IsTerminal(res.value)
         THEN /\ req' = [req EXCEPT ![r] =
                           [q EXCEPT !.pc = "record", !.verdict_data = res.value]]
              /\ running' = {r}
         ELSE /\ req' = [req EXCEPT ![r] =
                           [q EXCEPT !.pc = "sleep", !.verdict_data = res.value,
                                     !.in_progress = @ + 1]]
              /\ running' = {}
  /\ UNCHANGED <<DATABASE_URL, db_pool, db, last_link, p_in, p_out, out, session>>

\* the sleep of the last pass is over: range(30) is exhausted
submit_exhausted(r) ==
  /\ running = {}
  /\ req[r].pc = "sleep"
  /\ req[r].i + 1 >= MaxAttempts
  /\ req' = [req EXCEPT ![r].pc = "record"]
  /\ running' = {r}
  /\ UNCHANGED <<DATABASE_URL, db_pool, db, last_link, p_in, p_out, out, session>>

\* after the loop: the Timeout default, then 4) record the solve if
\* accepted, then the embed is built and handed to safe_respond
submit_record(r) ==
  /\ running = {r}
  /\ req[r].pc = "record"
  /\ LET vd == AfterLoop(req[r].verdict_data)
         e  == Backend
         q  == [req[r] EXCEPT !.pc = "reply_embed", !.verdict_data = vd,
                              !.i = 0, !.gets = 0, !.in_progress = 0,
                              !.asked = Nil,
                              !.all_in_progress = (req[r].gets = req[r].in_progress)]
     IN  IF ~IsAccepted(vd)
         THEN /\ req' = [req EXCEPT ![r] = q]
              /\ UNCHANGED db
         ELSE IF ~db[e].schema
         THEN /\ req' = [req EXCEPT ![r] = [q EXCEPT !.pc = "crashed"]]
              /\ UNCHANGED db
         ELSE /\ req' = [req EXCEPT ![r] = [q EXCEPT !.wrote = e]]
              /\ db' = [db EXCEPT ![e].solves =
                          InsertOrIgnore(db[e].solves,
                            SolveRow(req[r].user, req[r].judge, req[r].problem_id))]
  /\ running' = {}
  /\ UNCHANGED <<DATABASE_URL, db_pool, last_link, p_in, p_out, out, session>>

\* the one reply of the request, through safe_respond; the task ends and
\* its locals are gone
submit_reply(r, forbidden) ==
  /\ running = {}
  /\ req[r].pc \in {"reply_notlinked", "reply_error", "reply_embed"}
  /\ LET kind == CASE req[r].pc = "reply_notlinked" -> "notlinked"
                   [] req[r].pc = "reply_error" -> "error"
                   [] OTHER -> "embed"
         text == CASE req[r].pc = "reply_notlinked" -> Nil
                   [] req[r].pc = "reply_error" -> req[r].e
                   [] OTHER -> req[r].verdict_data.verdict
     IN  req' = [req EXCEPT ![r] =
                   [@ EXCEPT !.pc = "done", !.row = Nil, !.run_id = Nil,
                             !.verdict_data = Nil, !.e = None,
                             !.replies = safe_respond(@, kind, text, forbidden)]]
  /\ UNCHANGED <<DATABASE_URL, db_pool, db, running, last_link, p_in, p_out, out, session>>

\* --------------------------------------------------------- specification

\* the steps of the submit tasks in R
SubmitSteps(R) ==
  \/ \E r \in R, u \in Users, j \in Judges, p \in Problems :
       submit_defer(r, u, j, p)
  \/ \E r \in R : submit_lookup(r)
  \/ \E r \in R, cp \in LoginProcesses : submit_login(r, cp)
  \/ \E r \in R : submit_stage(r)
  \/ \E r \in R, cp \in SubmitProcesses : submit_oj_submit(r, cp)
  \/ \E r \in R, cp \in GetProcesses(RunId) : submit_poll(r, cp)
  \/ \E r \in R : submit_exhausted(r)
  \/ \E r \in R : submit_record(r)
  \/ \E r \in R, f \in BOOLEAN : submit_reply(r, f)

\* Spec: the process from module load on, with the ready event, any number
\* of link commands and one submit request
Next ==
  \/ on_ready
  \/ \E u \in Users, c \in Creds : vjudge_link(u, c[1], c[2])
  \/ SubmitSteps({1})

Spec == Init /\ [][Next]_vars

\* SpecConc: the process after the ready event, with credentials linked,
\* and the submit requests of Reqs in flight together
InitConc ==
  /\ DATABASE_URL \in BOOLEAN
  /\ db_pool = IF DATABASE_URL THEN "pool" ELSE None
  /\ \E L \in (SUBSET Users) \ {{}} :
       LET c == CHOOSE x \in Creds : TRUE
           e == IF DATABASE_URL THEN "pg" ELSE "sqlite"
       IN  /\ db = [x \in Engines |->
                      IF x = e
                      THEN [schema |-> TRUE, solves |-> <<>>,
                            users |-> {[user_id |-> u, username |-> c[1],
                                        password |-> c[2]] : u \in L}]
                      ELSE EmptyStore(FALSE)]
           /\ last_link = [u \in Users |-> IF u \in L THEN c ELSE Nil]
  /\ running = {}
  /\ req = [r \in Reqs |-> IdleReq]
  /\ p_in = Nil
  /\ p_out = Nil
  /\ out = Nil
  /\ session = None

NextConc == SubmitSteps(Reqs)

SpecConc == InitConc /\ [][NextConc]_vars

\* ------------------------------------------ oj_get_result on its own

\* tokens on a row of the table under test
MaxTokens == 7

\* rows of the table under test
MaxLines == 2

Letters == <<"a", "b", "c", "d", "e", "f", "g", "h", "i">>

\* a row of n tokens, the k-th of them (if any) being idtok
TableRow(n, k, idtok) ==
  [t \in 1..n |-> IF t = k THEN idtok ELSE <<Letters[t]>>]

\* the id nowhere (0), in the ID column, or in the verdict column
IdColumns == {0, 1, 4}

TableRows(idtok) ==
  { TableRow(n, k, idtok) : n \in 0..MaxTokens, k \in IdColumns }

RECURSIVE SeqsUpTo(_, _)
SeqsUpTo(S, n) ==
  IF n = 0 THEN { <<>> }
  ELSE LET shorter == SeqsUpTo(S, n - 1)
       IN  shorter \cup { Append(q, x) : q \in shorter, x \in S }

\* the text `oj get` prints for the rows: tokens joined by sep, one row a line
Render(rows, sep, last) ==
  Join([k \in 1..Len(rows) |-> Join(rows[k], sep)], <<NL>>) \o last

\* column separator and end of output: single spaces and a final newline,
\* or runs of two spaces and no final newline
Layouts == { <<<<SP>>, <<NL>>>>, <<<<SP, SP>>, <<>>>> }

\* the row "42 2024-01-01 123A Accepted 15ms 2048KB"
ExampleRow ==
  << RunId, <<"2", "0", "2", "4", "-", "0", "1", "-", "0", "1">>,
     <<"1", "2", "3", "A">>, <<"A", "c", "c", "e", "p", "t", "e", "d">>,
     <<"1", "5", "m", "s">>, <<"2", "0", "4", "8", "K", "B">> >>

\* inputs of the parser under test: the rows, the text printed for them,
\* the id looked for and the exit code of the tool
ParseInputs ==
  { [rows |-> <<>>, stdout |-> <<>>, id |-> RunId, returncode |-> 1] }
    \cup
  { [rows |-> rows, stdout |-> Render(rows, l[1], l[2]), id |-> RunId,
     returncode |-> 0] :
      rows \in { <<ExampleRow>> } \cup
               UNION { SeqsUpTo(TableRows(idtok), MaxLines) :
                         idtok \in {RunId, <<"1">> \o RunId} },
      l \in Layouts }

InitParse ==
  /\ DATABASE_URL = FALSE
  /\ db_pool = None
  /\ db = [e \in Engines |-> EmptyStore(FALSE)]
  /\ running = {}
  /\ req = [r \in Reqs |-> IdleReq]
  /\ last_link = [u \in Users |-> Nil]
  /\ p_in \in ParseInputs
  /\ p_out = Nil
  /\ out = Nil
  /\ session = None

\* one call of oj_get_result on the input
ParseStep ==
  /\ p_out = Nil
  /\ p_out' = oj_get_result([returncode |-> p_in.returncode,
                             stdout |-> p_in.stdout], p_in.id)
  /\ UNCHANGED <<DATABASE_URL, db_pool, db, running, req, last_link, p_in, out, session>>

NextParse == ParseStep

SpecParse == InitParse /\ [][NextParse]_vars

\* ------------------------------- the persistence operations on their own

\* problems of the solves under test
DbProblems == {"1A", "2B"}

\* SpecDb: two deployments, one on each engine, that are given the same
\* commands; each step runs the database part of one handler on both
InitDb ==
  /\ DATABASE_URL = FALSE
  /\ db_pool = None
  /\ db = [e \in Engines |-> EmptyStore(TRUE)]
  /\ running = {}
  /\ req = [r \in Reqs |-> IdleReq]
  /\ last_link = [u \in Users |-> Nil]
  /\ p_in = Nil
  /\ p_out = Nil
  /\ out = Nil
  /\ session = None

\* on_ready again: CREATE TABLE IF NOT EXISTS on tables that exist
BothInitDb ==
  /\ db' = [e \in Engines |-> CreateTables(db[e])]
  /\ out' = [op |-> "init_db", user |-> None, res |-> [e \in Engines |-> None]]
  /\ UNCHANGED <<DATABASE_URL, db_pool, running, req, last_link, p_in, p_out, session>>

\* the upsert of vjudge_link
BothLink(user_id, username, password) ==
  /\ db' = [e \in Engines |->
              [db[e] EXCEPT !.users = Upsert(@, user_id, username, password)]]
  /\ out' = [op |-> "link", user |-> user_id, res |-> [e \in Engines |-> None]]
  /\ UNCHANGED <<DATABASE_URL, db_pool, running, req, last_link, p_in, p_out, session>>

\* the credential lookup of submit
BothLookup(user_id) ==
  /\ out' = [op |-> "get", user |-> user_id,
             res |-> [e \in Engines |-> FetchRow(db[e].users, user_id)]]
  /\ UNCHANGED <<DATABASE_URL, db_pool, db, running, req, last_link, p_in, p_out, session>>

\* the insert of submit after an accepted verdict
BothRecord(user_id, judge, problem_id) ==
  /\ db' = [e \in Engines |->
              [db[e] EXCEPT !.solves =
                 InsertOrIgnore(@, SolveRow(user_id, judge, problem_id))]]
  /\ out' = [op |-> "record", user |-> user_id, res |-> [e \in Engines |-> None]]
  /\ UNCHANGED <<DATABASE_URL, db_pool, running, req, last_link, p_in, p_out, session>>

\* the query of leaderboard; each engine returns one of the row lists the
\* statement allows
BothLeaderboard ==
  /\ \E res \in [Engines -> UNION {LeaderboardRows(db[e].solves) : e \in Engines}] :
       /\ \A e \in Engines : res[e] \in LeaderboardRows(db[e].solves)
       /\ out' = [op |-> "leaderboard", user |-> None, res |-> res]
  /\ UNCHANGED <<DATABASE_URL, db_pool, db, running, req, last_link, p_in, p_out, session>>

NextDb ==
  \/ BothInitDb
  \/ \E u \in Users, c \in Creds : BothLink(u, c[1], c[2])
  \/ \E u \in Users : BothLookup(u)
  \/ \E u \in Users, j \in Judges, p \in DbProblems : BothRecord(u, j, p)
  \/ BothLeaderboard

SpecDb == InitDb /\ [][NextDb]_vars

\* ---------------------------------------------------------- properties

\* the row has the id inside one of its tokens
RowHasId(row, id) == \E t \in 1..Len(row) : Contains(id, row[t])

RowsWithId(rows, id) == {k \in 1..Len(rows) : RowHasId(rows[k], id)}

Parsed == p_out # Nil /\ p_in.returncode = 0

\* C8: for every stdout returned with exit code 0, oj_get_result returns a
\* VerdictResult and never raises; text without a row for the id, or whose
\* first row for the id has fewer than six tokens, gives the Unknown sentinel.
C8_NeverRaises ==
  Parsed =>
    LET hits == RowsWithId(p_in.rows, p_in.id)
    IN  /\ p_out.kind = "return"
        /\ (hits = {} \/ \E k \in hits :
              (\A j \in hits : k <= j) /\ Len(p_in.rows[k]) < 6)
             => p_out.value = Unknown

\* C9: the result is taken from the first row that contains the id: its
\* 4th, 5th and 6th tokens are verdict, time and memory; without such a row
\* the result is the Unknown sentinel.
C9_FirstMatchingRow ==
  Parsed =>
    LET hits == RowsWithId(p_in.rows, p_in.id)
    IN  IF hits = {} THEN p_out = Returned(Unknown)
        ELSE LET row == p_in.rows[CHOOSE k \in hits : \A j \in hits : k <= j]
             IN  Len(row) >= 6 =>
                   p_out = Returned([verdict |-> row[4], time |-> row[5],
                                     memory |-> row[6]])

\* the example of the spec, and a table whose second row is the first match
C9_Witness ==
  /\ Parsed
  /\ \/ /\ p_in.rows = <<ExampleRow>>
        /\ p_out.value.verdict = <<"A", "c", "c", "e", "p", "t", "e", "d">>
        /\ p_out.value.time = <<"1", "5", "m", "s">>
        /\ p_out.value.memory = <<"2", "0", "4", "8", "K", "B">>
     \/ /\ Len(p_in.rows) = 2
        /\ RowsWithId(p_in.rows, p_in.id) = {2}
        /\ p_out.kind = "return"
        /\ p_out.value.verdict = p_in.rows[2][4]

\* the verdict text reads "accepted" in some letter case
SaysAccepted(text) == lower(text) = <<"a", "c", "c", "e", "p", "t", "e", "d">>

SaysInProgress(text) ==
  lower(text) \in { <<"r", "u", "n", "n", "i", "n", "g">>,
                    <<"j", "u", "d", "g", "i", "n", "g">> }

\* the request has sent its one reply, the verdict embed
EmbedSent(r) ==
  /\ req[r].pc = "done"
  /\ Len(req[r].replies) = 1
  /\ req[r].replies[1].kind = "embed"

\* the request has left the poll loop and its final verdict reads accepted
FinishedAccepted(r) ==
  \/ req[r].pc = "reply_embed" /\ SaysAccepted(req[r].verdict_data.verdict)
  \/ EmbedSent(r) /\ SaysAccepted(req[r].replies[1].text)

InLedger(e, user_id, judge, problem_id) ==
  \E k \in 1..Len(db[e].solves) :
    /\ db[e].solves[k].user_id = user_id
    /\ db[e].solves[k].judge = judge
    /\ db[e].solves[k].problem_id = problem_id

\* C1: when every oj_get_result call of a request returned an in-progress
\* verdict, its final verdict is the synthetic Timeout result, and Timeout is
\* the verdict shown in the reply.
C1_TimeoutWhenAllInProgress ==
  \A r \in Reqs :
    req[r].all_in_progress =>
      /\ req[r].pc = "reply_embed" => req[r].verdict_data = Timeout
      /\ req[r].pc = "done" =>
           EmbedSent(r) /\ req[r].replies[1].text = Timeout.verdict

PollBound ==
  \A r \in Reqs :
    /\ req[r].gets <= 30
    /\ req[r].pc \in {"poll", "sleep"} => req[r].gets = req[r].in_progress
    /\ req[r].pc = "record" /\ req[r].gets = req[r].in_progress
         => req[r].gets = 30

LeavesLoop ==
  \A r \in Reqs :
    /\ req[r].pc = "sleep" /\ req[r].gets = 30
         => req'[r].pc \in {"sleep", "record"}
    /\ req[r].pc = "record" => req'[r].pc \in {"record", "reply_embed"}

Polling(r) == req[r].pc \in {"poll", "sleep"}

\* C2: a request that reaches the poll loop ends: it never makes more than
\* 30 oj_get_result calls, it has made exactly 30 when it leaves the loop
\* after in-progress verdicts only, from there it goes on to the reply
\* without another call, and it reaches its end.
C2_PollTerminates ==
  /\ []PollBound
  /\ [][LeavesLoop]_vars
  /\ \A r \in Reqs : Polling(r) ~> (req[r].pc = "done")

C2_Witness ==
  \E r \in Reqs :
    req[r].pc = "record" /\ req[r].gets = 30 /\ req[r].in_progress = 30

\* C3: when the status source returns an in-progress verdict N times
\* (0 <= N < 30) and then accepted, the request has made exactly N+1 calls
\* when it leaves the loop, and the solve of (user, judge, problem_id) is in
\* the ledger from the record step to the end of the request.
C3_StopsAtAccepted ==
  \A r \in Reqs :
    /\ req[r].pc = "record" /\ req[r].verdict_data # Nil
         /\ SaysAccepted(req[r].verdict_data.verdict)
         => req[r].gets = req[r].in_progress + 1 /\ req[r].in_progress < 30
    /\ req[r].pc \in {"reply_embed", "done"} /\ FinishedAccepted(r)
         => /\ req[r].wrote # None
            /\ InLedger(req[r].wrote, req[r].user, req[r].judge,
                        req[r].problem_id)

\* accepted on the 30th call, and a request at its end with the solve stored
C3_Witness ==
  \E r \in Reqs :
    \/ /\ req[r].pc = "record"
       /\ SaysAccepted(req[r].verdict_data.verdict)
       /\ req[r].gets = 30 /\ req[r].in_progress = 29
    \/ /\ req[r].pc = "done"
       /\ FinishedAccepted(r)
       /\ InLedger(req[r].wrote, req[r].user, req[r].judge, req[r].problem_id)

OneRowPerSolve ==
  \A e \in Engines : \A k1, k2 \in 1..Len(db[e].solves) :
    db[e].solves[k1] = db[e].solves[k2] => k1 = k2

\* the record step of a request whose tuple is already stored
RecordsAgain(r) ==
  /\ req[r].pc = "record"
  /\ req'[r].pc # "record"
  /\ InLedger(Backend, req[r].user, req[r].judge, req[r].problem_id)

\* C4: in every state each store holds at most one solves row per
\* (user_id, judge, problem_id), whatever the interleaving of the requests;
\* recording a tuple that is stored already leaves the ledger as it is and
\* raises nothing.
C4_UniqueSolves ==
  /\ []OneRowPerSolve
  /\ [][\A r \in Reqs : RecordsAgain(r) =>
          db' = db /\ req'[r].pc = "reply_embed"]_vars

\* two requests recorded the same tuple and one row is stored
C4_Witness ==
  \E r1, r2 \in Reqs :
    /\ r1 # r2
    /\ req[r1].wrote # None /\ req[r1].wrote = req[r2].wrote
    /\ req[r1].user = req[r2].user
    /\ Len(db[req[r1].wrote].solves) = 1

\* C5: a solves row (u, j, p) is stored only if a request of u for j and p
\* left the poll loop with a verdict that reads accepted in some letter
\* case; a request that ends otherwise has written nothing.
C5_RowsFromAccepted ==
  /\ \A e \in Engines : \A k \in 1..Len(db[e].solves) :
       \E r \in Reqs :
         /\ req[r].user = db[e].solves[k].user_id
         /\ req[r].judge = db[e].solves[k].judge
         /\ req[r].problem_id = db[e].solves[k].problem_id
         /\ FinishedAccepted(r)
  /\ \A r \in Reqs : req[r].wrote # None => FinishedAccepted(r)

\* one request stored its solve, another ended on Unknown and stored nothing
C5_Witness ==
  \E r1, r2 \in Reqs :
    /\ req[r1].wrote # None
    /\ EmbedSent(r2) /\ req[r2].replies[1].text = Unknown.verdict
    /\ req[r2].user # req[r1].user
    /\ \A e \in Engines :
         ~InLedger(e, req[r2].user, req[r2].judge, req[r2].problem_id)

\* C6: after any sequence of link commands the users table holds exactly one
\* row for each user that has linked, with the username and password of the
\* user's last link command, and a get of the user returns these values.
C6_GetReturnsLastLink ==
  \A u \in Users :
    last_link[u] # Nil =>
      /\ db[Backend].schema
      /\ Cardinality({x \in db[Backend].users : x.user_id = u}) = 1
      /\ FetchRow(db[Backend].users, u) = last_link[u]

\* C7: a fault raised by oj_login, oj_submit or oj_get_result is caught in the
\* request: it leads to the error reply and to nothing else, exactly one reply
\* is sent, no solve is written and no verdict embed is sent.
C7_FaultsCaught ==
  \A r \in Reqs :
    req[r].raised # None =>
      /\ req[r].pc \in {"reply_error", "done"}
      /\ req[r].wrote = None
      /\ \A e \in Engines :
           ~InLedger(e, req[r].user, req[r].judge, req[r].problem_id)
      /\ req[r].pc = "reply_error" => req[r].replies = <<>>
      /\ req[r].pc = "done" =>
           Len(req[r].replies) = 1 /\ req[r].replies[1].kind = "error"

\* a truncated row made the parser raise during polling and the error was sent
C7_Witness ==
  \E r \in Reqs :
    /\ req[r].raised = "IndexError"
    /\ req[r].submits = 1
    /\ req[r].pc = "done"
    /\ req[r].replies[1].kind = "error"

\* C10: a submit request of a user without stored credentials ends in
\* NotLinked: it sends the link-your-credentials reply, runs no oj command,
\* creates no temporary file and writes nothing to the ledger.
C10_NotLinked ==
  \A r \in Reqs :
    req[r].pc \notin {"idle", "lookup"} /\ ~req[r].stored =>
      /\ req[r].pc \in {"reply_notlinked", "done"}
      /\ req[r].pc = "done" =>
           Len(req[r].replies) = 1 /\ req[r].replies[1].kind = "notlinked"
      /\ req[r].logins = 0 /\ req[r].submits = 0 /\ req[r].gets = 0
      /\ req[r].tmp_path = None
      /\ req[r].wrote = None

\* the user_ids that have a row in the ledger
Solvers(solves) == {solves[k].user_id : k \in 1..Len(solves)}

SolvesOf(solves, u) == {k \in 1..Len(solves) : solves[k].user_id = u}

\* C13: the leaderboard query returns one entry for each user with at least
\* one solve and for nobody else, the entry's count is the number of ledger
\* rows of the user, and the counts never increase from an entry to the next.
C13_LeaderboardSorted ==
  out # Nil /\ out.op = "leaderboard" =>
    \A e \in Engines :
      LET rows == out.res[e]
          led  == db[e].solves
      IN  /\ {rows[i][1] : i \in 1..Len(rows)} = Solvers(led)
          /\ Len(rows) = Cardinality(Solvers(led))
          /\ \A i \in 1..Len(rows) :
                rows[i][2] = Cardinality(SolvesOf(led, rows[i][1]))
          /\ \A i \in 1..(Len(rows) - 1) : rows[i][2] >= rows[i + 1][2]

\* a leaderboard of two users with two solves and one
C13_Witness ==
  /\ out # Nil
  /\ out.op = "leaderboard"
  /\ Len(out.res["sqlite"]) = 2
  /\ out.res["sqlite"][1][2] = 2
  /\ out.res["sqlite"][2][2] = 1

\* the (user, judge, problem) tuples of a ledger, whatever their order
RowSet(solves) == {solves[k] : k \in 1..Len(solves)}

UserOrder(rows) == [i \in 1..Len(rows) |-> rows[i][1]]

\* C14: two leaderboard queries on ledgers with the same set of rows return
\* the users in the same order, on whichever engine: the order among equal
\* counts is fixed by a tie-break.
C14_TieBreakDefined ==
  out # Nil /\ out.op = "leaderboard" =>
    \A e1, e2 \in Engines :
      RowSet(db[e1].solves) = RowSet(db[e2].solves)
        => UserOrder(out.res[e1]) = UserOrder(out.res[e2])

\* C15: after the same sequence of link, record, get and leaderboard
\* operations the two engines have returned the same result for every query
\* and hold the same users and solves rows.
C15_BackendsAgree ==
  /\ db["sqlite"].users = db["pg"].users
  /\ db["sqlite"].solves = db["pg"].solves
  /\ out # Nil => out.res["sqlite"] = out.res["pg"]

\* the tuples of the requests that have recorded an accepted verdict in e
AcceptedTuples(e) ==
  { SolveRow(req[r].user, req[r].judge, req[r].problem_id) :
      r \in {x \in Reqs : req[x].wrote = e} }

LedgerIsUnionOfAccepted ==
  /\ \A e \in Engines : RowSet(db[e].solves) = AcceptedTuples(e)
  /\ \A r \in Reqs :
       req[r].pc \in {"reply_embed", "done"} =>
         (FinishedAccepted(r) <=> req[r].wrote # None)

\* a step changes the locals of one request at most
OneRequestPerStep ==
  \A r1, r2 \in Reqs :
    r1 # r2 /\ req'[r1] # req[r1] => req'[r2] = req[r2]

\* a step of a request changes the ledger by the tuple of that request only
OwnTupleOnly ==
  \A e \in Engines :
    db'[e].solves # db[e].solves =>
      \E r \in Reqs :
        /\ req'[r] # req[r]
        /\ db'[e].solves =
             Append(db[e].solves,
                    SolveRow(req[r].user, req[r].judge, req[r].problem_id))

\* C16: requests in flight together do not affect each other: whatever the
\* interleaving, a step changes one request only and adds that request's
\* tuple only, and the ledger is the union of the (user, judge, problem_id)
\* tuples of the requests that ended with an accepted verdict, as it is
\* when the requests run one after the other.
C16_Independent ==
  /\ []LedgerIsUnionOfAccepted
  /\ [][OneRequestPerStep /\ OwnTupleOnly]_vars

\* two requests of different users, both accepted, both tuples stored
C16_Witness ==
  \E r1, r2 \in Reqs :
    /\ req[r1].user # req[r2].user
    /\ req[r1].pc = "done" /\ req[r2].pc = "done"
    /\ FinishedAccepted(r1) /\ FinishedAccepted(r2)
    /\ \E e \in Engines : Cardinality(RowSet(db[e].solves)) = 2

\* how far a request has come: lookup, login, stage, submit, poll, record,
\* respond
Rank(pc) ==
  CASE pc = "idle" -> 0 [] pc = "lookup" -> 1 [] pc = "login" -> 2
    [] pc = "stage" -> 3 [] pc = "submit" -> 4
    [] pc \in {"poll", "sleep"} -> 5 [] pc = "record" -> 6
    [] pc \in {"reply_notlinked", "reply_error", "reply_embed"} -> 7
    [] OTHER -> 8

\* the last token of what the oj process printed
LastToken(stdout) == LET toks == split(stdout) IN toks[Len(toks)]

StepsInOrder ==
  \A r \in Reqs :
    /\ req[r].logins > 0 => req[r].stored
    /\ req[r].tmp_path # None \/ req[r].submits > 0 =>
         req[r].login_rcs = <<0>>
    /\ req[r].gets > 0 =>
         /\ Len(req[r].submit_cps) = 1
         /\ req[r].submit_cps[1].returncode = 0
         /\ req[r].asked = LastToken(req[r].submit_cps[1].stdout)
    /\ req[r].wrote # None =>
         req[r].gets = 0 /\ req[r].pc \in {"reply_embed", "done"}
    /\ req[r].replies # <<>> => req[r].pc = "done"

\* no step takes a request back, the ledger is written by the record step
\* when the loop is over, and after it the request calls oj no more
StepsForward ==
  \A r \in Reqs :
    /\ Rank(req'[r].pc) >= Rank(req[r].pc)
    /\ req'[r].wrote # req[r].wrote =>
         /\ req[r].pc = "record"
         /\ IsTerminal(req[r].verdict_data) \/ req[r].gets = 30
    /\ Rank(req[r].pc) >= 6 =>
         /\ req'[r].logins = req[r].logins
         /\ req'[r].submits = req[r].submits
         /\ req'[r].gets <= req[r].gets

\* C17: the steps of a request come in the order lookup, login, stage,
\* submit, poll, record, respond: oj submit runs only after the one login of
\* the request exited with 0, oj get runs only after oj submit exited with 0
\* and is given the id that oj submit printed, and the ledger is written
\* only when polling is over.
C17_StepOrder ==
  /\ []StepsInOrder
  /\ [][StepsForward]_vars

\* a request went through every step and stored its solve
C17_Witness ==
  \E r \in Reqs :
    /\ req[r].pc = "done"
    /\ req[r].login_rcs = <<0>>
    /\ Len(req[r].submit_cps) = 1
    /\ req[r].wrote # None
    /\ EmbedSent(r)

\* the engine the configuration names (DB_FILE is for use without
\* DATABASE_URL only)
Configured == IF DATABASE_URL THEN "pg" ELSE "sqlite"

\* C18: the engine is selected once by the connection string: every lookup
\* and every write of the process goes to the configured engine, also for
\* commands handled before or between runs of on_ready, so the other
\* engine's store is never read and never holds a row.
C18_OneBackend ==
  /\ \A e \in Engines \ {Configured} :
       db[e].users = {} /\ db[e].solves = <<>>
  /\ \A r \in Reqs :
       /\ req[r].looked \in {None, Configured}
       /\ req[r].wrote \in {None, Configured}

\* every users row is still there, with the same values unless the step
\* is a link command of that user
UsersKept ==
  \A e \in Engines : \A x \in db[e].users :
    /\ \E y \in db'[e].users : y.user_id = x.user_id
    /\ x \notin db'[e].users => out'.op = "link" /\ out'.user = x.user_id

\* every solves row is still there, in its place and unchanged
SolvesKept ==
  \A e \in Engines :
    /\ Len(db'[e].solves) >= Len(db[e].solves)
    /\ SubSeq(db'[e].solves, 1, Len(db[e].solves)) = db[e].solves

\* the tables a command does not write stay as they are
OtherTableUnchanged ==
  \A e \in Engines :
    /\ out'.op = "link" => db'[e].solves = db[e].solves
    /\ out'.op \in {"get", "record", "leaderboard", "init_db"} =>
         db'[e].users = db[e].users
    /\ out'.op \in {"get", "leaderboard", "init_db"} =>
         db'[e].solves = db[e].solves

\* C19: stored data only grows: a users row stays in every later state and
\* its credentials change only by a link command of its own user, never by
\* the lookup or the insert of submit or by leaderboard; a solves row stays
\* in place and unchanged; a link command leaves the ledger as it is.
C19_DataOnlyGrows ==
  [][UsersKept /\ SolvesKept /\ OtherTableUnchanged]_vars

\* a user has linked again, with other credentials, while both stores hold
\* two users and two solves
C19_Witness ==
  /\ out # Nil
  /\ out.op = "link"
  /\ \A e \in Engines :
       /\ Cardinality(db[e].users) = 2
       /\ Len(db[e].solves) = 2
       /\ \E x \in db[e].users :
            x.user_id = out.user /\ x.password = "pw2"

\* the step is the end of an oj process of r: login, submit or get
Invokes(r) ==
  \/ req'[r].logins > req[r].logins
  \/ req'[r].submits > req[r].submits
  \/ req'[r].gets > req[r].gets

\* the login of r has exited with 0 and its oj submit has not returned yet
BetweenLoginAndSubmit(r) == req[r].pc \in {"stage", "submit"}

\* C20: with requests in flight together, nothing runs between the login of
\* a request and its oj submit: no other request ends a login or any other
\* oj process in between, and when oj submit runs the last login that
\* succeeded was the one of the submitting user, with that user's stored
\* credentials.
C20_SubmitUnderOwnLogin ==
  [][\A r \in Reqs :
       /\ BetweenLoginAndSubmit(r) =>
            \A r2 \in Reqs \ {r} : ~Invokes(r2)
       /\ req'[r].submits > req[r].submits =>
            /\ session = req[r].user
            /\ req[r].login_rcs = <<0>>
            /\ \E x \in db[Backend].users :
                 x.user_id = req[r].user
                   /\ req[r].row = <<x.username, x.password>>]_vars

\* oj submit of one user has run while a request of another user, logged in
\* before, sleeps between two polls
C20_Witness ==
  \E r1, r2 \in Reqs :
    /\ req[r1].user # req[r2].user
    /\ req[r1].pc = "sleep"
    /\ req[r2].pc = "poll"
    /\ req[r2].submits = 1
    /\ session = req[r2].user

\* the sends of a safe_respond call that went to the channel ch
SendsTo(m, ch) == {k \in 1..Len(m.calls) : m.calls[k].to = ch}

\* C12: when ctx.respond raises Forbidden, safe_respond makes exactly one
\* direct-message send with the same content and does not try the primary
\* reply again; when ctx.respond succeeds it sends no direct message. Each
\* call delivers its message at most once.
C12_OneDelivery ==
  \A r \in Reqs : \A k \in 1..Len(req[r].replies) :
    LET m == req[r].replies[k]
    IN  /\ Cardinality(SendsTo(m, "respond")) = 1
        /\ m.calls[1].to = "respond"
        /\ m.forbidden =>
              /\ Cardinality(SendsTo(m, "dm")) = 1
              /\ \A j \in SendsTo(m, "dm") : m.calls[j].text = m.text
              /\ m.via = "dm"
        /\ ~m.forbidden => SendsTo(m, "dm") = {} /\ m.via = "respond"

\* a verdict embed went out as one direct message after Forbidden
C12_Witness ==
  \E r \in Reqs :
    /\ req[r].pc = "done"
    /\ Len(req[r].replies) = 1
    /\ req[r].replies[1].kind = "embed"
    /\ req[r].replies[1].forbidden
    /\ req[r].replies[1].via = "dm"
    /\ Len(req[r].replies[1].calls) = 2

\* the oj process of r (login, submit or the first get) has not exited yet
InvocationRunning(r) ==
  req[r].pc \in {"login", "submit", "poll"}

\* r waits for nothing but the thread: its defer, its query or its timer is
\* over and its next step is ready to run
CanResume(r) ==
  req[r].pc \in {"lookup", "sleep", "reply_notlinked", "reply_error",
                 "reply_embed"}

\* C11: while the oj process of one request runs, every other request whose
\* next step is ready can take it: the invocation suspends the issuing task
\* only and does not hold the event loop thread.
C11_OthersProgress ==
  \A r1, r2 \in Reqs :
    r1 # r2 /\ InvocationRunning(r1) /\ CanResume(r2)
      => ENABLED SubmitSteps({r2})

\* the event loop runs every task that can run, and every oj process exits
FairSpec == Spec /\ WF_vars(SubmitSteps({1}))

====
